---- MODULE Spec2Model ----
(***************************************************************************)
(* Model of embedded-graphics-sparklines (src/src/lib.rs): the Sparkline   *)
(* sample store (new, add) and the Drawable implementation (draw), with    *)
(* the i32/u32/usize arithmetic at its machine width and the f32           *)
(* arithmetic as IEEE-754 binary32 (24-bit significand, round to nearest,  *)
(* ties to even).                                                          *)
(***************************************************************************)
EXTENDS Integers, Sequences, FiniteSets, TLC

\* ------------------------------------------------------------------------
\* Bounds of the model
\* ------------------------------------------------------------------------
MaxSamples == 3
MaxAdds == 3
MaxWidth == 2
MaxHeight == 2
MaxStroke == 1

\* ------------------------------------------------------------------------
\* Machine integers
\* ------------------------------------------------------------------------
I32_MAX == 2147483647
I32_MIN == -I32_MAX - 1

RECURSIVE Pow2(_)
Pow2(n) == IF n = 0 THEN 1 ELSE 2 * Pow2(n - 1)

RECURSIVE BitLen(_)
BitLen(m) == IF m = 0 THEN 0 ELSE 1 + BitLen(m \div 2)

Abs(n) == IF n < 0 THEN -n ELSE n

\* a - b on i32 leaves the i32 range
SubOverflows(a, b) ==
    \/ b < 0 /\ a > I32_MAX + b
    \/ b > 0 /\ a < I32_MIN + b

\* a - b on i32 with two's complement wrap-around (overflow checks off)
WrappingSub(a, b) ==
    IF b < 0 /\ a > I32_MAX + b THEN (a - I32_MAX - 1) + (I32_MIN - b)
    ELSE IF b > 0 /\ a < I32_MIN + b THEN (a - I32_MIN) + (I32_MAX - b) + 1
    ELSE a - b

\* a + b on i32 leaves the i32 range
AddOverflows(a, b) ==
    \/ b > 0 /\ a > I32_MAX - b
    \/ b < 0 /\ a < I32_MIN - b

\* a + b on i32 with two's complement wrap-around
WrappingAdd(a, b) ==
    IF b > 0 /\ a > I32_MAX - b THEN (a - I32_MAX - 1) + (I32_MIN + b)
    ELSE IF b < 0 /\ a < I32_MIN - b THEN (a - I32_MIN) + (I32_MAX + b) + 1
    ELSE a + b

\* ------------------------------------------------------------------------
\* f32: k is the class, s the sign bit, and a finite non-zero value is
\* (-1)^s * m * 2^e with 2^23 <= m < 2^24.  The magnitudes draw computes
\* stay between 2^-40 and 2^70, inside the normal range of binary32.
\* ------------------------------------------------------------------------
F32Zero(s) == [k |-> "zero", s |-> s, m |-> 0, e |-> 0]
F32Inf(s) == [k |-> "inf", s |-> s, m |-> 0, e |-> 0]
F32NaN == [k |-> "nan", s |-> 0, m |-> 0, e |-> 0]
F32Fin(s, m, e) == [k |-> "fin", s |-> s, m |-> m, e |-> e]

\* round (-1)^s * (m + f) * 2^e to binary32, where 0 < m < 2^31 and f is a
\* fraction in [0,1) that is non-zero iff sticky; sticky needs m >= 2^25
Round(s, m, e, sticky) ==
    LET len == BitLen(m) IN
    IF len <= 24 THEN F32Fin(s, m * Pow2(24 - len), e - (24 - len))
    ELSE LET sh == len - 24
             q == m \div Pow2(sh)
             r == m % Pow2(sh)
             half == Pow2(sh - 1)
             up == \/ r > half
                   \/ r = half /\ (sticky \/ q % 2 = 1)
             q1 == IF up THEN q + 1 ELSE q
         IN IF q1 = Pow2(24) THEN F32Fin(s, Pow2(23), e + sh + 1)
            ELSE F32Fin(s, q1, e + sh)

\* `n as f32` for an i32 (or a small u32/usize) n
FromInt(n) ==
    IF n = 0 THEN F32Zero(0)
    ELSE IF n = I32_MIN THEN F32Fin(1, Pow2(23), 8)
    ELSE Round(IF n < 0 THEN 1 ELSE 0, Abs(n), 0, FALSE)

\* `u32::MAX as f32` = 2^32 and `usize::MAX as f32` = 2^64 (64-bit usize)
U32MaxAsF32 == F32Fin(0, Pow2(23), 9)
UsizeMaxAsF32 == F32Fin(0, Pow2(23), 41)

F32Neg(a) == IF a.k = "nan" THEN a ELSE [a EXCEPT !.s = 1 - a.s]

SignXor(a, b) == IF a.s = b.s THEN 0 ELSE 1

\* f32 * f32
F32Mul(a, b) ==
    IF a.k = "nan" \/ b.k = "nan" THEN F32NaN
    ELSE IF a.k = "inf" \/ b.k = "inf"
         THEN IF a.k = "zero" \/ b.k = "zero" THEN F32NaN
              ELSE F32Inf(SignXor(a, b))
    ELSE IF a.k = "zero" \/ b.k = "zero" THEN F32Zero(SignXor(a, b))
    ELSE LET a1 == a.m \div 4096
             a0 == a.m % 4096
             b1 == b.m \div 4096
             b0 == b.m % 4096
             mid == a1 * b0 + a0 * b1
             lo == a0 * b0 + (mid % 4096) * 4096
             hi == a1 * b1 + mid \div 4096 + lo \div Pow2(24)
             lo24 == lo % Pow2(24)
         IN Round(SignXor(a, b), hi * 64 + lo24 \div Pow2(18),
                  a.e + b.e + 18, lo24 % Pow2(18) # 0)

\* n more quotient bits of r / d by long division, r < d
RECURSIVE LongDiv(_, _, _, _)
LongDiv(q, r, d, n) ==
    IF n = 0 THEN <<q, r>>
    ELSE IF 2 * r >= d THEN LongDiv(2 * q + 1, 2 * r - d, d, n - 1)
    ELSE LongDiv(2 * q, 2 * r, d, n - 1)

\* f32 / f32
F32Div(a, b) ==
    IF a.k = "nan" \/ b.k = "nan" THEN F32NaN
    ELSE IF a.k = "inf"
         THEN IF b.k = "inf" THEN F32NaN ELSE F32Inf(SignXor(a, b))
    ELSE IF b.k = "inf" THEN F32Zero(SignXor(a, b))
    ELSE IF b.k = "zero"
         THEN IF a.k = "zero" THEN F32NaN ELSE F32Inf(SignXor(a, b))
    ELSE IF a.k = "zero" THEN F32Zero(SignXor(a, b))
    ELSE LET qr == LongDiv(a.m \div b.m, a.m % b.m, b.m, 26)
         IN Round(SignXor(a, b), qr[1], a.e - b.e - 26, qr[2] # 0)

\* sum of two finite non-zero f32 with x.e >= y.e
AddFinite(x, y) ==
    LET d == x.e - y.e
        mx == x.m * 8
        my == IF d > 27 THEN 0 ELSE (y.m * 8) \div Pow2(d)
        sticky == IF d > 27 THEN TRUE ELSE (y.m * 8) % Pow2(d) # 0
    IN IF x.s = y.s THEN Round(x.s, mx + my, x.e - 3, sticky)
       ELSE LET diff == IF sticky THEN mx - my - 1 ELSE mx - my
            IN IF diff = 0 THEN F32Zero(0)
               ELSE IF diff < 0 THEN Round(y.s, -diff, x.e - 3, FALSE)
               ELSE Round(x.s, diff, x.e - 3, sticky)

\* f32 + f32
F32Add(a, b) ==
    IF a.k = "nan" \/ b.k = "nan" THEN F32NaN
    ELSE IF a.k = "inf"
         THEN IF b.k = "inf" /\ a.s # b.s THEN F32NaN ELSE a
    ELSE IF b.k = "inf" THEN b
    ELSE IF a.k = "zero"
         THEN IF b.k = "zero" THEN F32Zero(IF a.s = 1 /\ b.s = 1 THEN 1 ELSE 0)
              ELSE b
    ELSE IF b.k = "zero" THEN a
    ELSE IF a.e >= b.e THEN AddFinite(a, b) ELSE AddFinite(b, a)

\* f32 - f32
F32Sub(a, b) == F32Add(a, F32Neg(b))

\* `a as i32`: truncation toward zero, saturating, NaN to 0
AsI32(a) ==
    IF a.k = "nan" \/ a.k = "zero" THEN 0
    ELSE IF a.k = "inf" \/ a.e >= 8
         THEN IF a.s = 1 THEN I32_MIN ELSE I32_MAX
    ELSE LET mag == IF a.e >= 0 THEN a.m * Pow2(a.e)
                    ELSE IF a.e <= -24 THEN 0
                    ELSE a.m \div Pow2(-a.e)
         IN IF a.s = 1 THEN -mag ELSE mag

\* ------------------------------------------------------------------------
\* Inputs of the model
\* ------------------------------------------------------------------------
Samples == {I32_MIN, 7, I32_MAX}
TopLefts == {[x |-> 0, y |-> 0], [x |-> 5, y |-> 4]}
Colors == {"On"}
Errors == {"E1", "E2"}

Point(x, y) == [x |-> x, y |-> y]
Size(w, h) == [width |-> w, height |-> h]
Rectangle(tl, sz) == [top_left |-> tl, size |-> sz]

VARIABLES
    values,          \* Sparkline::values, front of the deque first
    max_samples,     \* Sparkline::max_samples
    bbox,            \* Sparkline::bbox
    color,           \* Sparkline::color
    stroke_width,    \* Sparkline::stroke_width
    overflow_checks, \* build profile: integer overflow panics (dev) or wraps (release)
    pc,              \* "idle", "loop" (inside draw's for loop), "returned", "panicked"
    min, max,        \* draw's locals
    slope,
    px_per_seg,
    i,
    lastp,
    submitted,       \* primitives handed to target by the draw call, with the target's answer
    ret,             \* what the draw call returned
    overflowed,      \* an integer operation of the draw call wrapped around
    added,           \* history: the arguments of the add calls so far
    prev             \* history: outcome of the previous draw call if no add came since

vars == <<values, max_samples, bbox, color, stroke_width, overflow_checks, pc,
          min, max, slope, px_per_seg, i, lastp, submitted, ret, overflowed,
          added, prev>>

config == <<max_samples, bbox, color, stroke_width, overflow_checks>>
locals == <<min, max, slope, px_per_seg, i, lastp>>

NoDraw == [ret |-> "none", submitted |-> <<>>]

\* Sparkline::new: an empty deque and the arguments stored as given
Init ==
    /\ values = <<>>
    /\ max_samples \in 0..MaxSamples
    /\ bbox \in {Rectangle(tl, Size(w, h)) :
                    tl \in TopLefts, w \in 0..MaxWidth, h \in 0..MaxHeight}
    /\ color \in Colors
    /\ stroke_width \in 0..MaxStroke
    /\ overflow_checks \in BOOLEAN
    /\ pc = "idle"
    /\ min = 0 /\ max = 0
    /\ slope = F32Zero(0)
    /\ px_per_seg = F32Zero(0)
    /\ i = 0
    /\ lastp = Point(0, 0)
    /\ submitted = <<>>
    /\ ret = "none"
    /\ overflowed = FALSE
    /\ added = <<>>
    /\ prev = NoDraw

\* VecDeque::pop_front: removes the front element, nothing on an empty deque
PopFront(vals) == IF vals = <<>> THEN vals ELSE Tail(vals)

\* add that evicts the newest sample (pop_back) instead of the oldest
AddValuesPopBack(vals, cap, val) ==
    Append(IF Len(vals) = cap /\ vals # <<>>
           THEN SubSeq(vals, 1, Len(vals) - 1) ELSE vals, val)

\* the body of Sparkline::add
AddValues(vals, cap, val) ==
    Append(IF Len(vals) = cap THEN PopFront(vals) ELSE vals, val)

Add(val) ==
    /\ pc = "idle"
    /\ Len(added) < MaxAdds
    /\ values' = AddValues(values, max_samples, val)
    /\ added' = Append(added, val)
    /\ prev' = NoDraw
    /\ UNCHANGED <<config, pc, locals, submitted, ret, overflowed>>

\* the fold of draw: min and max in a single pass from (i32::MAX, i32::MIN)
RECURSIVE FoldMinMax(_, _)
FoldMinMax(vals, acc) ==
    IF vals = <<>> THEN acc
    ELSE LET val == Head(vals)
             a0 == IF val < acc[1] THEN val ELSE acc[1]
             a1 == IF val > acc[2] THEN val ELSE acc[2]
         IN FoldMinMax(Tail(vals), <<a0, a1>>)

MinMax(vals) == FoldMinMax(vals, <<I32_MAX, I32_MIN>>)

\* slope after the "slope mod": height - stroke_width, over max - min if they differ
Slope(height, stroke, mn, mx) ==
    LET s0 == F32Sub(FromInt(height), FromInt(stroke))
    IN IF mx # mn THEN F32Div(s0, FromInt(WrappingSub(mx, mn))) ELSE s0

\* (width - 1) as f32 / (len - 1) as f32, the subtractions on u32 and usize
PxPerSeg(width, len) ==
    F32Div(IF width = 0 THEN U32MaxAsF32 ELSE FromInt(width - 1),
           IF len = 0 THEN UsizeMaxAsF32 ELSE FromInt(len - 1))

\* an integer subtraction of draw's prologue leaves its range
PrologueOverflows(vals, width, mn, mx) ==
    \/ mx # mn /\ SubOverflows(mx, mn)
    \/ width = 0
    \/ Len(vals) = 0

\* draw up to the for loop
DrawBegin ==
    /\ pc = "idle"
    /\ LET mm == MinMax(values)
           ovf == PrologueOverflows(values, bbox.size.width, mm[1], mm[2])
       IN /\ min' = mm[1]
          /\ max' = mm[2]
          /\ submitted' = <<>>
          /\ IF ovf /\ overflow_checks
             THEN /\ pc' = "panicked"
                  /\ ret' = "panic"
                  /\ overflowed' = FALSE
                  /\ UNCHANGED <<slope, px_per_seg, i, lastp>>
             ELSE /\ pc' = "loop"
                  /\ ret' = "none"
                  /\ overflowed' = ovf
                  /\ slope' = Slope(bbox.size.height, stroke_width, mm[1], mm[2])
                  /\ px_per_seg' = PxPerSeg(bbox.size.width, Len(values))
                  /\ i' = 0
                  /\ lastp' = Point(0, 0)
    /\ UNCHANGED <<values, config, added, prev>>

\* scaled_val of one sample, d = val - min
ScaledVal(d, sl, box, stroke) ==
    F32Sub(F32Sub(F32Add(FromInt(box.top_left.y), FromInt(box.size.height)),
                  F32Mul(FromInt(d), sl)),
           F32Div(FromInt(stroke), FromInt(2)))

\* x before the offset of the box: (i as f32 * px_per_seg) as i32
ScaledX(idx, pps) == AsI32(F32Mul(FromInt(idx), pps))

\* the point of sample idx
MapPoint(idx, val, mn, sl, pps, box, stroke) ==
    Point(WrappingAdd(ScaledX(idx, pps), box.top_left.x),
          AsI32(ScaledVal(WrappingSub(val, mn), sl, box, stroke)))

\* an integer operation of one loop iteration leaves its range
IterationOverflows(idx, val, mn, pps, box) ==
    \/ SubOverflows(val, mn)
    \/ AddOverflows(ScaledX(idx, pps), box.top_left.x)

\* the styled primitive of one segment: draw_fn(lastp, p) with the stroke style
Styled(a, b, c, w) == [from |-> a, to |-> b, color |-> c, stroke_width |-> w]

\* the result of the submission dropped instead of propagated with `?`
TryIgnored(answer) == [returns |-> FALSE, value |-> answer]

\* `.draw(target)?`: an Err of the target is returned from draw as it is
Try(answer) == [returns |-> answer # "Ok", value |-> answer]

\* one iteration of the for loop; answer is what target says to the submission
DrawStep(answer) ==
    /\ pc = "loop"
    /\ i < Len(values)
    /\ LET val == values[i + 1]
           ovf == IterationOverflows(i, val, min, px_per_seg, bbox)
           p == MapPoint(i, val, min, slope, px_per_seg, bbox, stroke_width)
       IN IF ovf /\ overflow_checks
          THEN /\ pc' = "panicked"
               /\ ret' = "panic"
               /\ answer = "Ok"
               /\ UNCHANGED <<i, lastp, submitted, overflowed>>
          ELSE /\ overflowed' = (overflowed \/ ovf)
               /\ IF i > 0
                  THEN /\ submitted' = Append(submitted,
                              [prim |-> Styled(lastp, p, color, stroke_width),
                               answer |-> answer])
                       /\ IF Try(answer).returns
                          THEN /\ pc' = "returned"
                               /\ ret' = Try(answer).value
                               /\ UNCHANGED <<i, lastp>>
                          ELSE /\ lastp' = p
                               /\ i' = i + 1
                               /\ UNCHANGED <<pc, ret>>
                  ELSE /\ answer = "Ok"
                       /\ lastp' = p
                       /\ i' = i + 1
                       /\ UNCHANGED <<pc, ret, submitted>>
    /\ UNCHANGED <<values, config, min, max, slope, px_per_seg, added, prev>>

\* a draw that consumes the deque while it iterates (drain instead of iter)
DrawEndDrained ==
    /\ pc = "loop"
    /\ i = Len(values)
    /\ pc' = "returned"
    /\ ret' = "Ok"
    /\ values' = <<>>
    /\ UNCHANGED <<config, locals, submitted, overflowed, added, prev>>

\* the loop is over: Ok(())
DrawEnd ==
    /\ pc = "loop"
    /\ i = Len(values)
    /\ pc' = "returned"
    /\ ret' = "Ok"
    /\ UNCHANGED <<values, config, locals, submitted, overflowed, added, prev>>

\* the caller takes the result; the next frame starts on a cleared display
Return ==
    /\ pc = "returned"
    /\ pc' = "idle"
    /\ prev' = [ret |-> ret, submitted |-> submitted]
    /\ ret' = "none"
    /\ submitted' = <<>>
    /\ overflowed' = FALSE
    /\ UNCHANGED <<values, config, locals, added>>

Next ==
    \/ \E val \in Samples : Add(val)
    \/ DrawBegin
    \/ \E answer \in {"Ok"} \cup Errors : DrawStep(answer)
    \/ DrawEnd
    \/ Return

Spec == Init /\ [][Next]_vars

\* the instances of a capacity of at least 1, as the documentation of
\* max_samples has them
InitCap == Init /\ max_samples >= 1

SpecCap == InitCap /\ [][Next]_vars

\* the charts of a capacity, a width, a height and a stroke of at least 1
InitChart ==
    /\ InitCap
    /\ bbox.size.width >= 1
    /\ bbox.size.height >= 1
    /\ stroke_width >= 1

SpecChart == InitChart /\ [][Next]_vars

\* the instances with the largest box and stroke of the model, any capacity
InitFullBox ==
    /\ Init
    /\ bbox.size = Size(MaxWidth, MaxHeight)
    /\ stroke_width = MaxStroke

SpecFullBox == InitFullBox /\ [][Next]_vars

\* ------------------------------------------------------------------------
\* Properties
\* ------------------------------------------------------------------------
Min2(a, b) == IF a < b THEN a ELSE b

LastN(seq, n) == SubSeq(seq, Len(seq) - n + 1, Len(seq))

\* the draw call is over, one way or the other
DrawOver == pc \in {"returned", "panicked"}

\* the target accepted every submission of the draw call
TargetNeverFailed == \A k \in 1..Len(submitted) : submitted[k].answer = "Ok"

\* the primitives of a submission log, without the target's answers
PrimsOf(sub) == [k \in 1..Len(sub) |-> sub[k].prim]

\* the j-th mapped point (j = 0 for the oldest sample) as the connector got it
Mapped(j) == IF j = 0 THEN submitted[1].prim.from ELSE submitted[j].prim.to

\* n / 2 truncated toward zero
TruncHalf(n) == IF n < 0 THEN -((-n) \div 2) ELSE n \div 2

\* C1: with a capacity of at least 1, after every add the deque holds the
\* most recent min(number of adds, max_samples) added values, oldest first.
C1_SlidingWindow ==
    max_samples >= 1 =>
        /\ Len(values) = Min2(Len(added), max_samples)
        /\ values = LastN(added, Min2(Len(added), max_samples))

C1_Witness ==
    /\ max_samples = 2
    /\ added = <<I32_MIN, 7, I32_MAX>>
    /\ values = <<7, I32_MAX>>

\* C2: a draw on 0 or 1 samples returns Ok, without panic and without an
\* integer operation leaving its range, and submits nothing to the target.
C2_FewSamplesDrawOk ==
    (DrawOver /\ Len(values) <= 1) =>
        (ret = "Ok" /\ submitted = <<>> /\ ~overflowed)

\* C3: the deque never holds more than max_samples values (new yields no
\* usable instance of capacity 0).
C3_LenWithinCapacity == Len(values) <= max_samples

\* C4: a draw on at least 2 samples that are all equal returns Ok and hands
\* the connector points of one and the same y, whatever the box and stroke.
C4_FlatSignal ==
    (/\ DrawOver
     /\ Len(values) >= 2
     /\ \A j \in 1..Len(values) : values[j] = values[1]
     /\ TargetNeverFailed) =>
        /\ ret = "Ok"
        /\ \A j, k \in 0..(Len(values) - 1) : Mapped(j).y = Mapped(k).y

\* C5: a draw on N >= 2 samples with a target that never fails submits
\* exactly N-1 primitives, the k-th being the connector of the mapped points
\* of samples k-1 and k; the first point is the mapped oldest sample.
C5_SegmentsInOrder ==
    (DrawOver /\ Len(values) >= 2 /\ TargetNeverFailed) =>
        /\ ret = "Ok"
        /\ Len(submitted) = Len(values) - 1
        /\ \A k \in 1..Len(submitted) :
              /\ submitted[k].prim.from =
                    MapPoint(k - 1, values[k], min, slope, px_per_seg, bbox, stroke_width)
              /\ submitted[k].prim.to =
                    MapPoint(k, values[k + 1], min, slope, px_per_seg, bbox, stroke_width)

\* C6: when the target fails on the k-th submission, draw returns that very
\* error at once: the failed submission is the last one of the call, the
\* earlier ones stay as submitted, and the store is untouched.
C6_FailedIsLast ==
    \A k \in 1..Len(submitted) :
        submitted[k].answer # "Ok" =>
            /\ k = Len(submitted)
            /\ pc = "returned"
            /\ ret = submitted[k].answer

C6_DrawKeeps ==
    pc = "loop" =>
        /\ values' = values
        /\ Len(submitted') >= Len(submitted)
        /\ SubSeq(submitted', 1, Len(submitted)) = submitted

C6_FailFast == [](C6_FailedIsLast) /\ [][C6_DrawKeeps]_vars

C6_Witness ==
    /\ pc = "returned"
    /\ ret = "E2"
    /\ Len(values) = 3
    /\ Len(submitted) = 2
    /\ submitted[1].answer = "Ok"
    /\ submitted[2].answer = "E2"

\* C7: with N >= 2 samples and max # min, the minimum maps to
\* y = trunc(top + height - stroke_width/2), the maximum to
\* y = trunc(top + stroke_width/2), y does not increase with the sample, and
\* sample j is at x = left + trunc(j * (width-1) / (N-1)).
C7_LinearMapping ==
    (/\ DrawOver
     /\ Len(values) >= 2
     /\ \E j \in 1..Len(values) : values[j] # values[1]
     /\ TargetNeverFailed) =>
        /\ ret = "Ok"
        /\ LET mm == MinMax(values)
               n == Len(values)
               top == bbox.top_left.y
               height == bbox.size.height
           IN \A j \in 0..(n - 1) :
                /\ values[j + 1] = mm[1] =>
                      Mapped(j).y = TruncHalf(2 * (top + height) - stroke_width)
                /\ values[j + 1] = mm[2] =>
                      Mapped(j).y = TruncHalf(2 * top + stroke_width)
                /\ \A k \in 0..(n - 1) :
                      values[j + 1] <= values[k + 1] => Mapped(j).y >= Mapped(k).y
                /\ bbox.size.width >= 1 =>
                      Mapped(j).x = bbox.top_left.x
                                    + (j * (bbox.size.width - 1)) \div (n - 1)

\* C8: two draws with no add in between submit the same primitives, and a
\* draw leaves values, max_samples, the box, the colour and the stroke width
\* as they were.
C8_SameOutput ==
    (pc = "returned" /\ prev.ret # "none") =>
        LET a == PrimsOf(prev.submitted)
            b == PrimsOf(submitted)
            n == Min2(Len(a), Len(b))
        IN /\ SubSeq(a, 1, n) = SubSeq(b, 1, n)
           /\ (ret = "Ok" /\ prev.ret = "Ok") => a = b

C8_DrawReadsOnly ==
    (pc = "loop" \/ (pc = "idle" /\ pc' # "idle")) =>
        UNCHANGED <<values, max_samples, bbox, color, stroke_width>>

C8_Deterministic == [](C8_SameOutput) /\ [][C8_DrawReadsOnly]_vars

C8_Witness ==
    /\ pc = "returned"
    /\ ret = "Ok"
    /\ prev.ret = "Ok"
    /\ Len(values) = 3
    /\ Len(submitted) = 2
    /\ submitted = prev.submitted

\* C9: with N >= 2 samples, a box of width and height at least 1 at a
\* non-negative top-left and 0 <= stroke_width <= height, every point handed
\* to the connector lies inside the box.
InBox(p) ==
    /\ bbox.top_left.x <= p.x
    /\ p.x <= bbox.top_left.x + bbox.size.width - 1
    /\ bbox.top_left.y <= p.y
    /\ p.y <= bbox.top_left.y + bbox.size.height - 1

C9_PointsInBox ==
    (/\ Len(values) >= 2
     /\ bbox.size.width >= 1
     /\ bbox.size.height >= 1
     /\ bbox.top_left.x >= 0
     /\ bbox.top_left.y >= 0
     /\ stroke_width <= bbox.size.height) =>
        \A k \in 1..Len(submitted) :
            InBox(submitted[k].prim.from) /\ InBox(submitted[k].prim.to)

\* C10: with at least 2 samples, max - min and val - min of every stored val
\* fit in an i32, and draw returns Ok on a target that never fails.
C10_DifferencesFit ==
    (pc # "idle" /\ Len(values) >= 2) =>
        /\ ~SubOverflows(max, min)
        /\ \A j \in 1..Len(values) : ~SubOverflows(values[j], min)
        /\ (DrawOver /\ TargetNeverFailed /\ bbox.size.width >= 1) => ret = "Ok"

TypeOK ==
    /\ values \in Seq(Samples)
    /\ pc \in {"idle", "loop", "returned", "panicked"}
    /\ ret \in {"none", "Ok", "panic"} \cup Errors

====
